---- MODULE Spec2Model ----
(***************************************************************************)
(* CelestOS: the descriptor tables (TSS, GDT, IDT), their one-shot         *)
(* activation by init(), and the CPU's exception dispatch against the      *)
(* activated tables, for every boot entry point of the repository.         *)
(***************************************************************************)
EXTENDS Integers, Sequences, FiniteSets, TLC

\* ------------------------------------------------------------------ bounds

\* The dedicated stack buffer is placed by the linker: its base is one of
\* the page addresses 4096 * 1 .. 4096 * MaxStackPage.
MaxStackPage == 2
\* Faults the environment raises (stack exhaustion, a stray fault) in a run.
MaxEnvFaults == 1
\* Calls of init() made by the repeated-initialisation driver.
MaxInitCalls == 2
\* Calls of write_byte and write_string made by the driver of the Writer.
MaxWrites == 3
\* Length of the test slices handed to test_runner.
MaxTests == 2

\* ------------------------------------------------------- program constants

DOUBLE_FAULT_IST_INDEX == 0
STACK_SIZE == 4096 * 5
\* Interrupt Stack Table [u64; 7]
IstSlots == 7
BUFFER_HEIGHT == 25
BUFFER_WIDTH == 80
\* Color::Black, Color::Cyan
Black == 0
Cyan == 3

\* The exception vectors of the model, named as the fields of
\* InterruptDescriptorTable are.
Vectors == {"divide_error", "breakpoint", "double_fault",
            "general_protection", "page_fault"}

\* ------------------------------------------------------------ descriptors

NullDesc == [kind |-> "null", dpl |-> 0, base |-> 0, busy |-> FALSE]
\* Descriptor::kernel_code_segment(): a ring-0 64-bit code segment.
KernelCodeSegment == [kind |-> "code", dpl |-> 0, base |-> 0, busy |-> FALSE]
\* Descriptor::tss_segment(&TSS): a system descriptor of two table slots, the
\* low one holding type (available/busy) and the TSS's address.
TssSegmentLow(tss) == [kind |-> "tss_low", dpl |-> 0, base |-> tss.addr, busy |-> FALSE]
TssSegmentHigh(tss) == [kind |-> "tss_high", dpl |-> 0, base |-> tss.addr, busy |-> FALSE]

\* SegmentSelector::new(index, rpl): index in bits 3.., privilege in bits 0..1.
Selector(index, rpl) == index * 8 + rpl
SelIndex(sel) == sel \div 8

\* gdt.append(descriptor) for a one-slot user segment: the descriptor goes
\* to the first free slot (slot i of the table is tbl[i + 1]; slot 0 is the
\* null entry) and the selector of that slot is returned.
AppendUser(tbl, d) ==
    [tbl |-> Append(tbl, d), sel |-> Selector(Len(tbl), d.dpl)]
\* gdt.append(descriptor) for a two-slot system segment: the selector names
\* the first of the two slots.
AppendSystem(tbl, lo, hi) ==
    [tbl |-> Append(Append(tbl, lo), hi), sel |-> Selector(Len(tbl), lo.dpl)]

\* ------------------------------------------------------- lazy_static cells

Uninit == [init |-> FALSE, builds |-> 0, val |-> <<>>]

\* A deref that runs the initialiser every time (no Once guard).
LazyRebuild(cell, v) ==
    [init |-> TRUE, builds |-> cell.builds + 1, val |-> v]

\* Deref of a lazy_static: the initialiser runs on the first reference only.
LazyGet(cell, v) ==
    IF cell.init THEN cell
    ELSE [init |-> TRUE, builds |-> cell.builds + 1, val |-> v]

\* ----------------------------------------------------------------- tables

\* Stores the bottom of the buffer instead of its top.
BuildTSSBottom(stack_start) ==
    [addr |-> "TSS",
     interrupt_stack_table |->
        [i \in 0..(IstSlots - 1) |->
            IF i = DOUBLE_FAULT_IST_INDEX THEN stack_start ELSE 0]]

\* static ref TSS: TaskStateSegment::new() (every stack pointer 0), then
\* interrupt_stack_table[DOUBLE_FAULT_IST_INDEX] = stack_start + STACK_SIZE.
BuildTSS(stack_start) ==
    [addr |-> "TSS",
     interrupt_stack_table |->
        [i \in 0..(IstSlots - 1) |->
            IF i = DOUBLE_FAULT_IST_INDEX THEN stack_start + STACK_SIZE ELSE 0]]

\* Puts each selector in the other's field of Selectors.
BuildGDTSwapped(tss) ==
    LET a == AppendUser(<<NullDesc>>, KernelCodeSegment)
        b == AppendSystem(a.tbl, TssSegmentLow(tss), TssSegmentHigh(tss))
    IN  [tbl |-> b.tbl, code_selector |-> b.sel, tss_selector |-> a.sel]

\* static ref GDT: GlobalDescriptorTable::new() (the null entry only), the
\* kernel code segment appended, then the TSS segment; the two selectors
\* are kept beside the table.
BuildGDT(tss) ==
    LET a == AppendUser(<<NullDesc>>, KernelCodeSegment)
        b == AppendSystem(a.tbl, TssSegmentLow(tss), TssSegmentHigh(tss))
    IN  [tbl |-> b.tbl, code_selector |-> a.sel, tss_selector |-> b.sel]

\* InterruptDescriptorTable::new(): every entry missing.
MissingEntry ==
    [present |-> FALSE, handler |-> "none", sel |-> 0, ist |-> 0]

\* entry.set_handler_fn(h): present, the code selector read from CS at this
\* moment, no stack switch.
HandlerEntry(h, cs_sel) ==
    [present |-> TRUE, handler |-> h, sel |-> cs_sel, ist |-> 0]

\* static ref IDT: only the breakpoint vector gets a handler.
BuildIDT(cs_sel) ==
    [v \in Vectors |->
        IF v = "breakpoint" THEN HandlerEntry("breakpoint_handler", cs_sel)
        ELSE MissingEntry]

\* ------------------------------------------------------------------- texts

\* The texts the programs print on the VGA screen, as bytes.
\* "Hello World!"
HelloWorld == <<72, 101, 108, 108, 111, 32, 87, 111, 114, 108, 100, 33>>
\* "it did not crash!"
ItDidNotCrash == <<105, 116, 32, 100, 105, 100, 32, 110, 111, 116, 32, 99, 114, 97, 115, 104, 33>>
\* "Test printing something"
TestPrintingSomething == <<84, 101, 115, 116, 32, 112, 114, 105, 110, 116, 105, 110, 103, 32, 115, 111, 109, 101, 116, 104, 105, 110, 103>>
\* "Print testing"
PrintTesting == <<80, 114, 105, 110, 116, 32, 116, 101, 115, 116, 105, 110, 103>>
\* "EXCEPTION: BREAKPOINT" and the line feed that follows it
ExceptionBreakpoint == <<69, 88, 67, 69, 80, 84, 73, 79, 78, 58, 32, 66, 82, 69, 65, 75, 80, 79, 73, 78, 84, 10>>
\* The {:#?} rendering of the InterruptStackFrame depends on the interrupted
\* context: it is one of these texts, "{}" or a "{", "}" over two lines.
FrameDumps == {<<123, 125>>, <<123, 10, 125>>}
\* The Display rendering of a PanicInfo.
PanicMessage == <<112, 97, 110, 105, 99, 107, 101, 100>>

\* ---------------------------------------------------------------- programs

Entries == {"kernel", "kernel_test", "lib_test", "basic_boot", "should_panic"}

\* Instructions: an operation, the text it prints, the test it belongs to.
I(op) == [op |-> op, text |-> <<>>, test |-> 0]
Prn(text) == [op |-> "println", text |-> text, test |-> 0]
Ser(what, i) == [op |-> "serial", text |-> what, test |-> i]
CallOf(i) == [op |-> "call", text |-> <<>>, test |-> i]

\* A test function: what its body does.
TestFn(kind, text) == [kind |-> kind, text |-> text]

\* The #[test_case] functions of each binary, in slice order; for
\* should_panic, should_fail.
TestsOf(e) ==
    CASE e = "kernel_test" ->
            <<TestFn("pass", <<>>), TestFn("println", TestPrintingSomething)>>
      [] e = "lib_test" -> <<TestFn("int3", <<>>)>>
      [] e = "basic_boot" -> <<TestFn("println", PrintTesting)>>
      [] e = "should_panic" -> <<TestFn("panic", <<>>)>>
      [] OTHER -> <<>>

\* The body of a test function.
BodyOps(t) ==
    CASE t.kind = "println" -> <<Prn(t.text)>>
      [] t.kind = "int3" -> <<I("int3")>>
      [] t.kind = "panic" -> <<I("panic")>>
      [] OTHER -> <<>>

\* A run that prints "[Ok]" before it calls the test.
RunOkFirst(ts, i) ==
    <<Ser("name", i), Ser("[Ok]", i), CallOf(i)>> \o BodyOps(ts[i])

\* Testable::run of test i: the name is printed, the test is called, "[Ok]"
\* is printed.
Run(ts, i) ==
    <<Ser("name", i), CallOf(i)>> \o BodyOps(ts[i]) \o <<Ser("[Ok]", i)>>

\* for test in tests { test.run(); }
RECURSIVE RunAll(_, _)
RunAll(ts, i) ==
    IF i > Len(ts) THEN <<>> ELSE Run(ts, i) \o RunAll(ts, i + 1)

\* test_runner(tests): the banner, every test in slice order, then
\* exit_qemu(Success).
TestRunner(ts) ==
    <<Ser("Running", Len(ts))>> \o RunAll(ts, 1) \o <<I("exit_success")>>

\* test_panic_handler: "[failed]", the error, exit_qemu(Failed), loop {}.
TestPanicHandler ==
    <<Ser("[failed]", 0), Ser("Error", 0), I("exit_failed"), I("spin")>>

\* A should_panic _start that reports success when the test returns.
ShouldPanicStartInverted(ts) ==
    <<CallOf(1), Ser("name", 1)>> \o BodyOps(ts[1])
        \o <<Ser("[test did not panic]", 0), I("exit_success"), I("spin")>>

\* tests/should_panic.rs _start: should_fail() (which prints its name, then
\* asserts), "[test did not panic]", exit_qemu(Failed), loop {}.
ShouldPanicStart(ts) ==
    <<CallOf(1), Ser("name", 1)>> \o BodyOps(ts[1])
        \o <<Ser("[test did not panic]", 0), I("exit_failed"), I("spin")>>

\* A driver that repeats the kernel's init(); int3 pair MaxInitCalls times.
DriverProgram ==
    [i \in 1..(2 * MaxInitCalls + 1) |->
        IF i > 2 * MaxInitCalls THEN I("spin")
        ELSE IF i % 2 = 1 THEN I("init") ELSE I("int3")]

\* _start of each entry point up to its final loop {}, calls flattened:
\*   kernel        main.rs _start (not(test))
\*   kernel_test   main.rs _start (test): test_main runs trivial_assertion
\*                 and trivial_assertion2
\*   lib_test      lib.rs _start (test): test_main runs
\*                 test_breakpoint_exception
\*   basic_boot    tests/basic_boot.rs _start: test_main runs test_print
\*   should_panic  tests/should_panic.rs _start
\*   any other     the driver of the repeated initialisation
MainOps(e, ts) ==
    CASE e = "kernel" ->
            <<Prn(HelloWorld), I("init"), I("int3"), Prn(ItDidNotCrash), I("spin")>>
      [] e = "kernel_test" ->
            <<Prn(HelloWorld), I("init"), I("int3")>> \o TestRunner(ts)
                \o <<Prn(ItDidNotCrash), I("spin")>>
      [] e = "lib_test" -> <<I("init")>> \o TestRunner(ts) \o <<I("spin")>>
      [] e = "basic_boot" -> TestRunner(ts) \o <<I("spin")>>
      [] e = "should_panic" -> ShouldPanicStart(ts)
      [] OTHER -> DriverProgram

\* The #[panic_handler] of each binary: the kernel's prints the panic and
\* loops; the test binaries' is test_panic_handler; should_panic's prints
\* "[ok]", exits with Success and loops.
PanicHandlerOps(e) ==
    CASE e \in {"kernel_test", "lib_test", "basic_boot"} -> TestPanicHandler
      [] e = "should_panic" ->
            <<Ser("[ok]", 0), I("exit_success"), I("spin")>>
      [] OTHER -> <<Prn(PanicMessage), I("spin")>>

\* The positions of the first init and the first int3 of a program.
FirstOf(prog, op) ==
    IF \E i \in DOMAIN prog : prog[i].op = op
    THEN CHOOSE i \in DOMAIN prog :
            prog[i].op = op /\ \A j \in 1..(i - 1) : prog[j].op # op
    ELSE 0

\* A program with its first init and its first int3 exchanged.
SwapInitAndTrap(prog) ==
    LET a == FirstOf(prog, "init")
        c == FirstOf(prog, "int3")
    IN  IF a = 0 \/ c = 0 THEN prog
        ELSE [i \in DOMAIN prog |->
                IF i = a THEN prog[c] ELSE IF i = c THEN prog[a] ELSE prog[i]]

\* init_idt() ahead of gdt::init().
InitStepsIdtFirst == <<"idt_load", "gdt_load", "set_cs", "load_tss">>

\* init(): gdt::init() (GDT.0.load(), CS::set_reg, load_tss), then
\* interrupts::init_idt() (IDT.load()).
InitSteps == <<"gdt_load", "set_cs", "load_tss", "idt_load">>

\* ------------------------------------------------------------- VGA writer

Rows == 0..(BUFFER_HEIGHT - 1)
Cols == 0..(BUFFER_WIDTH - 1)

\* ColorCode::new(fg, bg): (bg as u8) << 4 | (fg as u8).
ColorCode(fg, bg) == bg * 16 + fg

ScreenChar(byte, color) == [ascii_char |-> byte, color_code |-> color]

\* What the text buffer at 0xb8000 holds when WRITER is constructed: the
\* Writer does not clear it. Either blanks, or row r full of the letter
\* 65 + r.
InitialScreens ==
    {[r \in Rows |-> [c \in Cols |-> ScreenChar(32, 7)]],
     [r \in Rows |-> [c \in Cols |-> ScreenChar(65 + r, 7)]]}

\* WRITER: column 0, cyan on black, the buffer as found. oob records an
\* index past the buffer (a panic in Rust), cells the cells write_byte
\* stored a byte in, wraps the new lines write_byte started on a full row.
NewWriter(screen) ==
    [column_pos |-> 0,
     color_code |-> ColorCode(Cyan, Black),
     chars |-> screen,
     oob |-> FALSE,
     cells |-> {},
     wraps |-> 0]

\* clear_row(row): blanks in the current colour.
ClearRow(w, row) ==
    [w EXCEPT !.chars[row] = [c \in Cols |-> ScreenChar(32, w.color_code)]]

\* for row in 1..BUFFER_HEIGHT: every character of the row is copied to
\* the row above.
\* (Here and below a one-element set binds an intermediate value once.)
RECURSIVE MoveUpFrom(_, _)
MoveUpFrom(chars, row) ==
    IF row >= BUFFER_HEIGHT THEN chars
    ELSE CHOOSE out \in
            {MoveUpFrom(moved, row + 1) :
                moved \in {[chars EXCEPT ![row - 1] =
                                [c \in Cols |-> chars[row][c]]]}} : TRUE

\* A new line that does not clear the last row.
NewLineKeepsLastRow(w) ==
    CHOOSE out \in
        {[moved EXCEPT !.column_pos = 0] :
            moved \in {[w EXCEPT !.chars = MoveUpFrom(w.chars, 1)]}} : TRUE

\* new_line(): the rows move up, the last row is cleared, column 0.
NewLine(w) ==
    CHOOSE out \in
        {[ClearRow(moved, BUFFER_HEIGHT - 1) EXCEPT !.column_pos = 0] :
            moved \in {[w EXCEPT !.chars = MoveUpFrom(w.chars, 1)]}} : TRUE

\* A byte stored at chars[row][col]; an index past the array panics.
Store(w, row, col, byte) ==
    IF row \in Rows /\ col \in Cols
    THEN [w EXCEPT !.chars[row][col] = ScreenChar(byte, w.color_code),
                   !.cells = @ \cup {<<row, col>>},
                   !.column_pos = col + 1]
    ELSE [w EXCEPT !.oob = TRUE]

\* write_byte that starts the new line only past the row's end.
WriteByteWrapsLate(w, byte) ==
    IF byte = 10 THEN NewLine(w)
    ELSE CHOOSE out \in
            {Store(w1, BUFFER_HEIGHT - 1, w1.column_pos, byte) :
                w1 \in {IF w.column_pos > BUFFER_WIDTH
                        THEN [NewLine(w) EXCEPT !.wraps = @ + 1]
                        ELSE w}} : TRUE

\* write_byte(byte): a line feed starts a new line; any other byte starts
\* one first if the row is full, and is stored in the last row at
\* column_pos, which advances.
WriteByte(w, byte) ==
    IF byte = 10 THEN NewLine(w)
    ELSE CHOOSE out \in
            {Store(w1, BUFFER_HEIGHT - 1, w1.column_pos, byte) :
                w1 \in {IF w.column_pos >= BUFFER_WIDTH
                        THEN [NewLine(w) EXCEPT !.wraps = @ + 1]
                        ELSE w}} : TRUE

\* write_string(s): printable ASCII and the line feed are written as they
\* are, every other byte as 0xfe. An index past the buffer panics, which
\* ends the loop.
RECURSIVE WriteString(_, _)
WriteString(w, s) ==
    IF s = <<>> \/ w.oob THEN w
    ELSE LET byte == Head(s)
             out == IF byte \in 32..126 \/ byte = 10 THEN byte ELSE 254
         IN  CHOOSE done \in
                {WriteString(w1, Tail(s)) : w1 \in {WriteByte(w, out)}} : TRUE

\* The bytes and strings the driver of the Writer passes: a line feed and
\* a letter; a string of half a row, "Hi" with a line feed, and the two
\* bytes of a non-ASCII character.
ByteInputs == {10, 65}
StringInputs ==
    {[i \in 1..(BUFFER_WIDTH \div 2) |-> 120], <<72, 105, 10>>, <<195, 169>>}

\* ------------------------------------------------------------------- state

VARIABLES
    entry,       \* the boot entry point that runs
    ip,          \* position in Program(entry), from 1
    callPc,      \* position in InitSteps while init() runs, 0 outside it
    initCalls,   \* calls of init() that have returned
    stackBase,   \* address of the static STACK buffer
    lazyTSS,     \* the lazy_static cells
    lazyGDT,
    lazyIDT,
    gdtr,        \* which descriptor table the CPU uses: "boot" or "kernel"
    cs,          \* code-segment register: selector, and the table it was loaded from
    tr,          \* task register: selector (0: unloaded) and the TSS it names
    idtr,        \* which vector table the CPU uses: "boot" or "kernel"
    cpu,         \* "running", "lookup", "handler", "halted", "reset", "exited"
    vec,         \* the vector being delivered, or "none"
    origin,      \* what raised the current condition: "none", "int3", "env", "ltr", "cs"
    stackOk,     \* whether the interrupted stack pointer is usable
    onStack,     \* the stack in use: "kernel" or "ist"
    frames,      \* interrupted contexts: <<>> or one [ip, cs, stack]
    hpc,         \* position in the running handler: "none", "print", "printing", "iret"
    writerLock,  \* holder of the WRITER spin lock: "none", "main", "handler"
    exitCode,    \* the codes written to the exit port, in order
    tests,       \* the test functions of the binary, in slice order
    events,      \* serial output, test calls, panics and exits, in order
    writer,      \* WRITER
    wcall,       \* the last call made on WRITER: <<method, argument>>
    writes,      \* calls made by the driver of the Writer
    traps,       \* int3 instructions executed
    bpRuns,      \* entries into breakpoint_handler
    dfRuns,      \* entries into a double-fault handler
    resumes,     \* returns from a handler into the interrupted code
    escalations, \* escalations of the current condition
    envFaults,   \* faults raised by the environment so far
    hwLog,       \* the activation steps executed, in order
    reads        \* every <<field, value>> read from the tables after construction

vars == <<entry, ip, callPc, initCalls, stackBase, lazyTSS, lazyGDT, lazyIDT,
          gdtr, cs, tr, idtr, cpu, vec, origin, stackOk, onStack, frames, hpc,
          writerLock, exitCode, tests, events, writer, wcall, writes, traps, bpRuns, dfRuns, resumes, escalations,
          envFaults, hwLog, reads>>

progVars == <<entry, ip, callPc, initCalls, exitCode>>
tableVars == <<stackBase, lazyTSS, lazyGDT, lazyIDT>>
regVars == <<gdtr, cs, tr, idtr>>
faultVars == <<cpu, vec, origin, stackOk, onStack, frames, hpc, escalations>>
countVars == <<traps, bpRuns, dfRuns, resumes, envFaults>>
harnessVars == <<tests, events>>
vgaVars == <<writer, wcall, writes>>
ioVars == <<harnessVars, vgaVars>>

StackBases == {4096 * k : k \in 1..MaxStackPage}

\* The code selector the bootloader left in CS: slot 1 or 2 of its own table.
BootSelectors == {Selector(1, 0), Selector(2, 0)}

\* The bootloader's descriptor table: a null entry and code segments up to
\* the slot its CS names; it holds no TSS descriptor.
BootGdt ==
    [i \in 1..3 |-> IF i = 1 THEN NullDesc ELSE KernelCodeSegment]

\* The bootloader's vector table: it registers no handler.
BootIdt == [v \in Vectors |-> MissingEntry]

\* Every entry point with the trap ahead of the initialisation.
ProgramTrapFirst(e) == SwapInitAndTrap(MainOps(e, tests)) \o PanicHandlerOps(e)

\* The binary: _start, then its panic handler.
Program(e) == MainOps(e, tests) \o PanicHandlerOps(e)

\* Where a panic continues: the first instruction of the panic handler.
PanicEntry == Len(MainOps(entry, tests)) + 1

Instr == Program(entry)[ip]
Op == Instr.op

InitCommon ==
    /\ ip = 1
    /\ callPc = 0
    /\ initCalls = 0
    /\ stackBase \in StackBases
    /\ lazyTSS = Uninit
    /\ lazyGDT = Uninit
    /\ lazyIDT = Uninit
    /\ gdtr = "boot"
    /\ cs \in {[sel |-> s, from |-> "boot"] : s \in BootSelectors}
    /\ tr = [sel |-> 0, base |-> "none"]
    /\ idtr = "boot"
    /\ cpu = "running"
    /\ vec = "none"
    /\ origin = "none"
    /\ stackOk = TRUE
    /\ onStack = "kernel"
    /\ frames = <<>>
    /\ hpc = "none"
    /\ writerLock = "none"
    /\ exitCode = <<>>
    /\ events = <<>>
    /\ writer \in {NewWriter(scr) : scr \in InitialScreens}
    /\ wcall = <<"none", 0>>
    /\ writes = 0
    /\ traps = 0
    /\ bpRuns = 0
    /\ dfRuns = 0
    /\ resumes = 0
    /\ escalations = 0
    /\ envFaults = 0
    /\ hwLog = <<>>
    /\ reads = {}

Init == entry \in Entries /\ tests = TestsOf(entry) /\ InitCommon

\* The tables the CPU reads through its registers.
ActiveGdt == IF gdtr = "kernel" THEN lazyGDT.val.tbl ELSE BootGdt
ActiveIdt == IF idtr = "kernel" THEN lazyIDT.val ELSE BootIdt

\* Slot i of a descriptor table, the null descriptor beyond its limit.
Slot(tbl, i) == IF i + 1 \in DOMAIN tbl THEN tbl[i + 1] ELSE NullDesc

\* The cells after a reference to GDT: its initialiser references TSS.
TssForced == LazyGet(lazyTSS, BuildTSS(stackBase))
\* A reference to GDT that constructs the table anew.
GdtRebuilt == LazyRebuild(lazyGDT, BuildGDT(TssForced.val))
GdtForced == LazyGet(lazyGDT, BuildGDT(TssForced.val))
\* TSS is referenced exactly when GDT's initialiser runs.
TssAfterGdtRef == IF GdtForced.builds # lazyGDT.builds THEN TssForced ELSE lazyTSS

\* The instruction after the current activation step: the next step, or the
\* return from init() to the caller.
StepDone ==
    IF callPc = Len(InitSteps)
    THEN /\ callPc' = 0
         /\ ip' = ip + 1
         /\ initCalls' = initCalls + 1
    ELSE /\ callPc' = callPc + 1
         /\ UNCHANGED <<ip, initCalls>>

\* The CPU raises vector v at the current instruction, which does not
\* complete (a fault: the saved instruction pointer is the instruction's).
RaiseFault(v, org) ==
    /\ cpu' = "lookup"
    /\ vec' = v
    /\ origin' = org
    /\ frames' = <<[ip |-> ip, cs |-> cs, stack |-> onStack]>>
    /\ escalations' = 0

Running == cpu = "running"
InInit(step) == Running /\ callPc > 0 /\ InitSteps[callPc] = step

\* ---------------------------------------------------------- init() actions

\* lib.rs init() is called.
CallInit ==
    /\ Running /\ callPc = 0 /\ Op = "init"
    /\ callPc' = 1
    /\ UNCHANGED <<entry, ioVars, ip, initCalls, exitCode, tableVars, regVars,
                   faultVars, countVars, writerLock, hwLog, reads>>

\* A table load that reloads the code-segment register as well.
GdtLoadReloadsCs ==
    /\ InInit("gdt_load")
    /\ lazyGDT' = GdtForced
    /\ lazyTSS' = TssAfterGdtRef
    /\ gdtr' = "kernel"
    /\ cs' = [sel |-> GdtForced.val.code_selector, from |-> "kernel"]
    /\ hwLog' = Append(hwLog, "lgdt")
    /\ StepDone
    /\ UNCHANGED <<entry, ioVars, exitCode, stackBase, lazyIDT, tr, idtr,
                   faultVars, countVars, writerLock, reads>>

\* GDT.0.load(): lgdt. The first reference to GDT constructs it.
GdtLoad ==
    /\ InInit("gdt_load")
    /\ lazyGDT' = GdtForced
    /\ lazyTSS' = TssAfterGdtRef
    /\ gdtr' = "kernel"
    /\ hwLog' = Append(hwLog, "lgdt")
    /\ StepDone
    /\ UNCHANGED <<entry, ioVars, exitCode, stackBase, lazyIDT, cs, tr, idtr,
                   faultVars, countVars, writerLock, reads>>

\* CS::set_reg(GDT.1.code_selector): the CPU reads the named slot of the
\* active descriptor table; anything but a code segment is a general
\* protection fault.
SetCs ==
    /\ InInit("set_cs")
    /\ lazyGDT' = GdtForced
    /\ lazyTSS' = TssAfterGdtRef
    /\ LET sel == GdtForced.val.code_selector
       IN  /\ reads' = reads \cup {<<"code_selector", sel>>}
           /\ IF Slot(ActiveGdt, SelIndex(sel)).kind = "code"
              THEN /\ cs' = [sel |-> sel, from |-> gdtr]
                   /\ hwLog' = Append(hwLog, "cs")
                   /\ StepDone
                   /\ UNCHANGED faultVars
              ELSE /\ RaiseFault("general_protection", "cs")
                   /\ UNCHANGED <<cs, hwLog, ip, callPc, initCalls,
                                  stackOk, onStack, hpc>>
    /\ UNCHANGED <<entry, ioVars, exitCode, stackBase, lazyIDT, gdtr, tr, idtr,
                   countVars, writerLock>>

\* load_tss(GDT.1.tss_selector): ltr. The CPU reads the named slot of the
\* active descriptor table, which must hold an available TSS descriptor,
\* marks that descriptor busy in the table and loads the task register; a
\* busy or other descriptor is a general protection fault.
LoadTss ==
    /\ InInit("load_tss")
    /\ lazyTSS' = TssAfterGdtRef
    /\ LET sel == GdtForced.val.tss_selector
           i == SelIndex(sel)
           d == Slot(ActiveGdt, i)
       IN  /\ reads' = reads \cup
                 {<<"tss_selector", sel>>,
                  <<"ist_top",
                    TssAfterGdtRef.val.interrupt_stack_table[DOUBLE_FAULT_IST_INDEX]>>}
           /\ IF gdtr = "kernel" /\ d.kind = "tss_low" /\ ~d.busy
              THEN /\ lazyGDT' = [GdtForced EXCEPT !.val.tbl[i + 1].busy = TRUE]
                   /\ tr' = [sel |-> sel, base |-> d.base]
                   /\ hwLog' = Append(hwLog, "ltr")
                   /\ StepDone
                   /\ UNCHANGED faultVars
              ELSE /\ lazyGDT' = GdtForced
                   /\ RaiseFault("general_protection", "ltr")
                   /\ UNCHANGED <<tr, hwLog, ip, callPc, initCalls,
                                  stackOk, onStack, hpc>>
    /\ UNCHANGED <<entry, ioVars, exitCode, stackBase, lazyIDT, gdtr, cs, idtr,
                   countVars, writerLock>>

\* init_idt(): IDT.load(), lidt. The first reference to IDT constructs it,
\* and set_handler_fn reads CS then.
IdtLoad ==
    /\ InInit("idt_load")
    /\ lazyIDT' = LazyGet(lazyIDT, BuildIDT(cs.sel))
    /\ idtr' = "kernel"
    /\ hwLog' = Append(hwLog, "lidt")
    /\ StepDone
    /\ UNCHANGED <<entry, ioVars, exitCode, stackBase, lazyTSS, lazyGDT, gdtr, cs, tr,
                   faultVars, countVars, writerLock, reads>>

\* ---------------------------------------------------------- program steps

\* println!: _print takes the WRITER spin lock, ...
PrintAcquire ==
    /\ Running /\ callPc = 0 /\ Op = "println"
    /\ writerLock = "none"
    /\ writerLock' = "main"
    /\ UNCHANGED <<progVars, ioVars, tableVars, regVars, faultVars, countVars,
                   hwLog, reads>>

\* A print whose guard is never dropped.
PrintReleaseKeepsLock ==
    /\ Running /\ callPc = 0 /\ Op = "println"
    /\ writerLock = "main"
    /\ \E text \in {Instr.text \o <<10>>} :
          /\ writer' = WriteString(writer, text)
          /\ wcall' = <<"write_string", text>>
    /\ ip' = ip + 1
    /\ UNCHANGED <<entry, harnessVars, writes, callPc, initCalls, exitCode,
                   tableVars, regVars, faultVars, countVars, writerLock,
                   hwLog, reads>>

\* ... writes the text and its line feed through write_fmt, and drops the
\* guard.
PrintRelease ==
    /\ Running /\ callPc = 0 /\ Op = "println"
    /\ writerLock = "main"
    /\ \E text \in {Instr.text \o <<10>>} :
          /\ writer' = WriteString(writer, text)
          /\ wcall' = <<"write_string", text>>
    /\ writerLock' = "none"
    /\ ip' = ip + 1
    /\ UNCHANGED <<entry, harnessVars, writes, callPc, initCalls, exitCode,
                   tableVars, regVars, faultVars, countVars, hwLog, reads>>

\* serial_print!/serial_println!: the text goes out on the serial port.
Serial ==
    /\ Running /\ callPc = 0 /\ Op = "serial"
    /\ events' = Append(events, <<Instr.text, Instr.test>>)
    /\ ip' = ip + 1
    /\ UNCHANGED <<entry, tests, vgaVars, callPc, initCalls, exitCode, tableVars,
                   regVars, faultVars, countVars, writerLock, hwLog, reads>>

\* self(): the test function is called.
CallTest ==
    /\ Running /\ callPc = 0 /\ Op = "call"
    /\ events' = Append(events, <<"call", Instr.test>>)
    /\ ip' = ip + 1
    /\ UNCHANGED <<entry, tests, vgaVars, callPc, initCalls, exitCode, tableVars,
                   regVars, faultVars, countVars, writerLock, hwLog, reads>>

\* A panic (a failed assert_eq!): control goes to the binary's panic
\* handler and never comes back.
Panic ==
    /\ Running /\ callPc = 0 /\ Op = "panic"
    /\ events' = Append(events, <<"panic", 0>>)
    /\ ip' = PanicEntry
    /\ UNCHANGED <<entry, tests, vgaVars, callPc, initCalls, exitCode, tableVars,
                   regVars, faultVars, countVars, writerLock, hwLog, reads>>

\* exit_qemu(code): the code is written to port 0xf4. QEMU's exit device
\* ends the run there; without it the write returns and the caller goes on.
ExitQemu ==
    /\ Running /\ callPc = 0 /\ Op \in {"exit_success", "exit_failed"}
    /\ exitCode' = Append(exitCode, IF Op = "exit_success" THEN "success" ELSE "failed")
    /\ events' = Append(events, <<Op, 0>>)
    /\ \/ cpu' = "exited" /\ ip' = ip
       \/ cpu' = "running" /\ ip' = ip + 1
    /\ UNCHANGED <<entry, tests, vgaVars, callPc, initCalls, tableVars, regVars,
                   vec, origin, stackOk, onStack, frames, hpc, escalations,
                   countVars, writerLock, hwLog, reads>>

\* A trap that saves the trapping instruction's own address.
Int3SavesOwnIp ==
    /\ Running /\ callPc = 0 /\ Op = "int3"
    /\ traps' = traps + 1
    /\ cpu' = "lookup"
    /\ vec' = "breakpoint"
    /\ origin' = "int3"
    /\ frames' = <<[ip |-> ip, cs |-> cs, stack |-> onStack]>>
    /\ escalations' = 0
    /\ UNCHANGED <<progVars, ioVars, tableVars, regVars, stackOk, onStack, hpc,
                   bpRuns, dfRuns, resumes, envFaults, writerLock, hwLog, reads>>

\* x86_64::instructions::interrupts::int3(): a trap, so the saved
\* instruction pointer is that of the following instruction.
Int3 ==
    /\ Running /\ callPc = 0 /\ Op = "int3"
    /\ traps' = traps + 1
    /\ cpu' = "lookup"
    /\ vec' = "breakpoint"
    /\ origin' = "int3"
    /\ frames' = <<[ip |-> ip + 1, cs |-> cs, stack |-> onStack]>>
    /\ escalations' = 0
    /\ UNCHANGED <<progVars, ioVars, tableVars, regVars, stackOk, onStack, hpc,
                   bpRuns, dfRuns, resumes, envFaults, writerLock, hwLog, reads>>

\* The kinds of fault the environment raises once init() has returned:
\* exhaustion of the kernel stack (a page fault on the guard page, with the
\* stack pointer unusable), and a fault of another vector on a good stack.
EnvFaultKinds == {"stack_overflow", "page_fault", "divide_error", "general_protection"}

EnvFault ==
    /\ Running /\ initCalls >= 1
    /\ envFaults < MaxEnvFaults
    /\ \E k \in EnvFaultKinds :
          /\ RaiseFault(IF k = "stack_overflow" THEN "page_fault" ELSE k, "env")
          /\ stackOk' = (k # "stack_overflow")
    /\ envFaults' = envFaults + 1
    /\ UNCHANGED <<progVars, ioVars, tableVars, regVars, onStack, hpc,
                   traps, bpRuns, dfRuns, resumes, writerLock, hwLog, reads>>

\* -------------------------------------------------------- exception dispatch

\* The TSS the task register names.
ActiveTss == lazyTSS.val

\* The CPU delivers `vec`: it reads the entry of the active vector table;
\* switches to Interrupt Stack Table slot ist - 1 when the entry's stack
\* index is 1..7; pushes the exception frame; loads CS from the entry's
\* selector and enters the handler. A missing entry, an unusable selector
\* or a frame push on an unusable stack is a fault of its own: it escalates
\* to the double-fault vector, and from the double-fault vector to a triple
\* fault, on which the machine resets.
Deliver ==
    /\ cpu = "lookup"
    /\ LET e == ActiveIdt[vec]
           switch == e.ist > 0
           targetOk ==
              IF switch
              THEN /\ tr.sel # 0
                   /\ ActiveTss.interrupt_stack_table[e.ist - 1] # 0
              ELSE stackOk
           selOk == Slot(ActiveGdt, SelIndex(e.sel)).kind = "code"
       IN  IF e.present /\ selOk /\ targetOk
           THEN /\ cpu' = "handler"
                /\ hpc' = "print"
                /\ onStack' = (IF switch THEN "ist" ELSE onStack)
                /\ cs' = [sel |-> e.sel, from |-> gdtr]
                /\ bpRuns' = bpRuns + (IF e.handler = "breakpoint_handler" THEN 1 ELSE 0)
                /\ dfRuns' = dfRuns + (IF vec = "double_fault" THEN 1 ELSE 0)
                /\ UNCHANGED <<vec, escalations>>
           ELSE /\ IF vec = "double_fault"
                   THEN cpu' = "reset" /\ vec' = vec
                   ELSE cpu' = cpu /\ vec' = "double_fault"
                /\ escalations' = escalations + 1
                /\ UNCHANGED <<hpc, onStack, cs, bpRuns, dfRuns>>
    /\ UNCHANGED <<progVars, ioVars, tableVars, gdtr, tr, idtr, origin, stackOk, frames,
                   traps, resumes, envFaults, writerLock, hwLog, reads>>

\* breakpoint_handler: println! takes the WRITER spin lock (and spins while
\* it is held), ...
HandlerPrintAcquire ==
    /\ cpu = "handler" /\ hpc = "print"
    /\ writerLock = "none"
    /\ writerLock' = "handler"
    /\ hpc' = "printing"
    /\ UNCHANGED <<progVars, ioVars, tableVars, regVars, cpu, vec, origin, stackOk,
                   onStack, frames, escalations, countVars, hwLog, reads>>

\* ... prints "EXCEPTION: BREAKPOINT" and the stack frame, and drops the
\* guard.
HandlerPrintRelease ==
    /\ cpu = "handler" /\ hpc = "printing"
    /\ \E text \in {ExceptionBreakpoint \o dump \o <<10>> : dump \in FrameDumps} :
          /\ writer' = WriteString(writer, text)
          /\ wcall' = <<"write_string", text>>
    /\ writerLock' = "none"
    /\ hpc' = "iret"
    /\ UNCHANGED <<progVars, harnessVars, writes, tableVars, regVars, cpu, vec, origin, stackOk,
                   onStack, frames, escalations, countVars, hwLog, reads>>

\* The handler returns: iretq pops the frame and the interrupted context
\* (instruction pointer, CS, stack) is back.
Iret ==
    /\ cpu = "handler" /\ hpc = "iret"
    /\ ip' = frames[1].ip
    /\ cs' = frames[1].cs
    /\ onStack' = frames[1].stack
    /\ frames' = <<>>
    /\ cpu' = "running"
    /\ hpc' = "none"
    /\ vec' = "none"
    /\ origin' = "none"
    /\ resumes' = resumes + 1
    /\ UNCHANGED <<entry, ioVars, callPc, initCalls, exitCode, tableVars, gdtr, tr, idtr,
                   stackOk, escalations, traps, bpRuns, dfRuns, envFaults,
                   writerLock, hwLog, reads>>

\* ------------------------------------------------------------ specifications

Next ==
    \/ CallInit \/ GdtLoad \/ SetCs \/ LoadTss \/ IdtLoad
    \/ PrintAcquire \/ PrintRelease \/ Serial \/ CallTest \/ Panic \/ ExitQemu
    \/ Int3 \/ EnvFault
    \/ Deliver \/ HandlerPrintAcquire \/ HandlerPrintRelease \/ Iret

\* Every boot entry point of the repository.
Spec == Init /\ [][Next]_vars

\* The CPU does not stop by itself: a delivery or a handler that can take
\* a step takes it.
CpuStep == Deliver \/ HandlerPrintAcquire \/ HandlerPrintRelease \/ Iret
FairSpec == Spec /\ WF_vars(CpuStep)

\* init() called more than once: the driver program.
InitDriver == entry = "init_driver" /\ tests = <<>> /\ InitCommon
NextDriver ==
    \/ CallInit \/ GdtLoad \/ SetCs \/ LoadTss \/ IdtLoad
    \/ Int3 \/ EnvFault
    \/ Deliver \/ HandlerPrintAcquire \/ HandlerPrintRelease \/ Iret
DriverSpec == InitDriver /\ [][NextDriver]_vars

\* WRITER driven through its public methods: write_byte and write_string
\* called up to MaxWrites times with the bytes and strings above.
WriteByteCall ==
    /\ writes < MaxWrites
    /\ \E byte \in ByteInputs :
          /\ writer' = WriteByte(writer, byte)
          /\ wcall' = <<"write_byte", byte>>
    /\ writes' = writes + 1
    /\ UNCHANGED <<progVars, ip, harnessVars, tableVars, regVars, faultVars,
                   countVars, writerLock, hwLog, reads>>

WriteStringCall ==
    /\ writes < MaxWrites
    /\ \E s \in StringInputs :
          /\ writer' = WriteString(writer, s)
          /\ wcall' = <<"write_string", s>>
    /\ writes' = writes + 1
    /\ UNCHANGED <<progVars, ip, harnessVars, tableVars, regVars, faultVars,
                   countVars, writerLock, hwLog, reads>>

InitWriter == entry = "writer_driver" /\ tests = <<>> /\ InitCommon
NextWriter == WriteByteCall \/ WriteStringCall
WriterSpec == InitWriter /\ [][NextWriter]_vars

\* The test harness over any slice of tests. A test function returns
\* (with or without printing) or panics; the slices are those of up to
\* MaxTests such functions and the binary's own. should_panic calls its one
\* function directly.
RunnerEntries == {"kernel_test", "lib_test", "basic_boot"}
TestKinds == {TestFn("pass", <<>>), TestFn("println", PrintTesting), TestFn("panic", <<>>)}
Slices == UNION {[1..n -> TestKinds] : n \in 0..MaxTests}
InitHarness ==
    /\ \/ entry \in RunnerEntries /\ tests \in Slices \cup {TestsOf(entry)}
       \/ entry = "should_panic" /\ tests \in [1..1 -> TestKinds]
    /\ InitCommon
NextHarness ==
    \/ CallInit \/ GdtLoad \/ SetCs \/ LoadTss \/ IdtLoad
    \/ PrintAcquire \/ PrintRelease \/ Serial \/ CallTest \/ Panic \/ ExitQemu
    \/ Int3
    \/ Deliver \/ HandlerPrintAcquire \/ HandlerPrintRelease \/ Iret
\* The CPU executes the next instruction of the binary.
HarnessSpec == InitHarness /\ [][NextHarness]_vars /\ WF_vars(NextHarness)

\* -------------------------------------------------------------------- claims

InitOrder == <<"lgdt", "cs", "ltr", "lidt">>
IsPrefix(a, b) == Len(a) <= Len(b) /\ \A i \in 1..Len(a) : a[i] = b[i]
StackOverflowRaised == origin = "env" /\ ~stackOk

\* C1: after init(), exhausting the kernel stack (a page fault with the
\* stack pointer unusable) makes the double-fault handler run exactly once,
\* on the Interrupt Stack Table stack, and the system then halts on purpose:
\* no second escalation, no reset.
C1_StackOverflowContained ==
    (initCalls >= 1 /\ StackOverflowRaised) =>
        /\ cpu # "reset"
        /\ escalations <= 1
        /\ (cpu # "lookup" =>
               /\ dfRuns = 1
               /\ onStack = "ist"
               /\ cpu \in {"handler", "halted"})

\* C2: in the vector table that init_idt() activates, the double-fault
\* entry is present and its stack-switch index selects Interrupt Stack
\* Table slot DOUBLE_FAULT_IST_INDEX (hardware index: slot + 1); the other
\* entries may use index 0.
C2_DoubleFaultEntryUsesIst ==
    idtr = "kernel" =>
        /\ ActiveIdt["double_fault"].present
        /\ ActiveIdt["double_fault"].ist = DOUBLE_FAULT_IST_INDEX + 1
        /\ \A v \in Vectors \ {"double_fault"} : ActiveIdt[v].ist \in 0..IstSlots

\* C3: after init(), every int3 enters breakpoint_handler exactly once, the
\* handler returns, and execution resumes at the instruction after the trap
\* with the interrupted CS and stack back; the trap neither halts the system
\* nor escalates to another vector.
C3_BreakpointResumes ==
    /\ [](/\ (origin = "int3" =>
                /\ initCalls >= 1
                /\ vec = "breakpoint"
                /\ escalations = 0
                /\ cpu \in {"lookup", "handler"}
                /\ bpRuns = (IF cpu = "lookup" THEN traps - 1 ELSE traps)
                /\ resumes = traps - 1)
          /\ (origin # "int3" => bpRuns = traps /\ resumes = traps))
    /\ [][(origin = "int3" /\ cpu = "handler" /\ cpu' = "running") =>
             /\ ip' = ip + 1
             /\ cs' = frames[1].cs /\ cs' = cs
             /\ onStack' = frames[1].stack /\ onStack' = "kernel"
             /\ callPc' = callPc]_vars
    /\ ((origin = "int3") ~> (origin = "none" /\ cpu = "running"))

C3_Witness ==
    /\ initCalls >= 1 /\ traps = 1 /\ bpRuns = 1 /\ resumes = 1
    /\ cpu = "running" /\ Program(entry)[ip - 1].op = "int3"

\* C4: init() activates in this order, one step after the other: the
\* descriptor table (holding the code and TSS descriptors) is loaded, CS is
\* set to the new code selector, the task register is loaded with the TSS
\* selector, the vector table is built and loaded. The task register is
\* never loaded while the table holding the TSS descriptor is not active,
\* and the vector table is never active while the task register is unloaded.
C4_ActivationOrder ==
    /\ IsPrefix(hwLog, InitOrder)
    /\ (initCalls >= 1 => hwLog = InitOrder)
    /\ (callPc > 0 => Len(hwLog) = callPc - 1)
    /\ (gdtr = "kernel" =>
          /\ \E i \in DOMAIN ActiveGdt : ActiveGdt[i].kind = "code"
          /\ \E i \in DOMAIN ActiveGdt : ActiveGdt[i].kind = "tss_low")
    /\ (cs.from = "kernel" => gdtr = "kernel" /\ cs.sel = lazyGDT.val.code_selector)
    /\ (tr.sel # 0 =>
          /\ gdtr = "kernel" /\ cs.from = "kernel"
          /\ tr.sel = lazyGDT.val.tss_selector
          /\ Slot(ActiveGdt, SelIndex(tr.sel)).kind = "tss_low")
    /\ (idtr = "kernel" => tr.sel # 0)
    /\ (lazyIDT.init => idtr = "kernel")

C4_Witness == initCalls = 1 /\ hwLog = InitOrder /\ idtr = "kernel"

\* C5: after init(), no fault raised on any vector, nor any escalation that
\* follows from it, ends in the triple fault that resets the machine.
C5_NoTripleFault ==
    initCalls >= 1 => cpu # "reset"

\* C6: Interrupt Stack Table slot DOUBLE_FAULT_IST_INDEX of the TSS holds
\* the base address of the static stack buffer plus its full length
\* (4096 * 5 bytes), the top of the buffer; every other slot keeps its
\* initial value 0.
C6_IstHoldsStackTop ==
    lazyTSS.init =>
        /\ lazyTSS.val.interrupt_stack_table[DOUBLE_FAULT_IST_INDEX]
              = stackBase + 4096 * 5
        /\ lazyTSS.val.interrupt_stack_table[DOUBLE_FAULT_IST_INDEX] # stackBase
        /\ \A i \in (0..(IstSlots - 1)) \ {DOUBLE_FAULT_IST_INDEX} :
              lazyTSS.val.interrupt_stack_table[i] = 0

C6_Witness == lazyTSS.init /\ tr.sel # 0 /\ tr.base = lazyTSS.val.addr

\* C7: once the GDT is loaded, code_selector names the slot that holds the
\* kernel code descriptor and tss_selector the first of the two slots that
\* hold the TSS descriptor of TSS (whose busy bit the CPU owns); the two
\* selectors differ, neither names the null entry, and the TSS descriptor's
\* slots do not overlap the code descriptor's.
C7_SelectorsNameTheirDescriptors ==
    gdtr = "kernel" =>
        LET g == lazyGDT.val
            c == SelIndex(g.code_selector)
            t == SelIndex(g.tss_selector)
        IN  /\ Slot(g.tbl, c) = KernelCodeSegment
            /\ Slot(g.tbl, t).kind = "tss_low"
            /\ Slot(g.tbl, t).base = lazyTSS.val.addr
            /\ Slot(g.tbl, t + 1).kind = "tss_high"
            /\ g.code_selector # g.tss_selector
            /\ c # 0 /\ t # 0
            /\ c \notin {t, t + 1}
            /\ Slot(g.tbl, 0) = NullDesc

C7_Witness ==
    /\ gdtr = "kernel"
    /\ cs.sel = lazyGDT.val.code_selector /\ cs.from = "kernel"
    /\ tr.sel = lazyGDT.val.tss_selector

\* C8: however often TSS, GDT and IDT are referenced, init() called more
\* than once included, each is constructed exactly once, and every lookup
\* of the code selector, the TSS selector and the emergency-stack top
\* returns the same value.
C8_ConstructedOnce ==
    /\ lazyTSS.builds <= 1 /\ lazyGDT.builds <= 1 /\ lazyIDT.builds <= 1
    /\ lazyTSS.init = (lazyTSS.builds = 1)
    /\ lazyGDT.init = (lazyGDT.builds = 1)
    /\ lazyIDT.init = (lazyIDT.builds = 1)
    /\ (lazyGDT.init => lazyTSS.init)
    /\ \A a \in reads : \A b \in reads : a[1] = b[1] => a[2] = b[2]
    /\ \A a \in reads :
          /\ a[1] = "code_selector" => a[2] = lazyGDT.val.code_selector
          /\ a[1] = "tss_selector" => a[2] = lazyGDT.val.tss_selector
          /\ a[1] = "ist_top" =>
                a[2] = lazyTSS.val.interrupt_stack_table[DOUBLE_FAULT_IST_INDEX]

\* init() has returned once and the second call has referenced GDT again
\* (load, code selector, TSS selector).
C8_Witness ==
    /\ initCalls = 1 /\ callPc = 3 /\ origin = "ltr"
    /\ Cardinality(reads) = 3

\* C9: loading the descriptor table changes only the CPU's descriptor-table
\* register: CS and the task register keep their values across the load,
\* CS changes only in the CS::set_reg step and the task register only in
\* the load_tss step.
C9_LoadChangesOnlyGdtr ==
    [][/\ (gdtr' # gdtr => cs' = cs /\ tr' = tr /\ idtr' = idtr)
       /\ (cs' # cs => InInit("set_cs") /\ gdtr' = gdtr)
       /\ (tr' # tr => InInit("load_tss") /\ gdtr' = gdtr)]_vars

\* The table is loaded and CS and the task register still hold what the
\* bootloader left.
C9_Witness == gdtr = "kernel" /\ cs.from = "boot" /\ tr.sel = 0

\* C10: in every boot entry point that raises a trap, init() has returned
\* before the first trapping instruction: the kernel _start and the library
\* test _start reach int3 only after init().
C10_InitBeforeTrap ==
    /\ ((Running /\ callPc = 0 /\ Op = "int3") =>
           initCalls >= 1 /\ idtr = "kernel" /\ tr.sel # 0)
    /\ (traps >= 1 => initCalls >= 1)
    /\ (traps >= 1 => entry \in {"kernel", "kernel_test", "lib_test"})

C10_Witness == entry = "lib_test" /\ traps = 1 /\ initCalls = 1

\* The tables as init() leaves them: the built values, the TSS descriptor
\* marked busy by ltr.
TablesAtActivation ==
    LET tss == BuildTSS(stackBase)
        gdt == BuildGDT(tss)
    IN  [tss |-> tss,
         gdt |-> [gdt EXCEPT !.tbl[SelIndex(gdt.tss_selector) + 1].busy = TRUE],
         idt |-> BuildIDT(gdt.code_selector)]

\* C11: once init() has loaded the GDT, the TSS and the IDT, nothing the
\* program does changes them: in every state after init() the GDT entries,
\* the TSS stack table and the IDT entries are those of the activation,
\* while and after handlers run and when init() is called again.
C11_TablesFixedAfterInit ==
    /\ [](initCalls >= 1 =>
            /\ lazyTSS.val = TablesAtActivation.tss
            /\ lazyGDT.val = TablesAtActivation.gdt
            /\ lazyIDT.val = TablesAtActivation.idt)
    /\ [][initCalls >= 1 =>
            /\ lazyTSS' = lazyTSS
            /\ lazyGDT' = lazyGDT
            /\ lazyIDT' = lazyIDT]_vars

\* init() has returned, a handler has run and returned, and a second init()
\* has reloaded the GDT and CS.
C11_Witness ==
    /\ initCalls >= 1 /\ bpRuns >= 1 /\ resumes >= 1
    /\ callPc = 3 /\ cpu = "running"

\* The positions of the events of one kind in the log.
At(kind) == {p \in DOMAIN events : events[p][1] = kind}

\* What follows position p in the log.
After(p) == SubSeq(events, p + 1, Len(events))

\* test_runner has run every test to its end and has written Success, or a
\* test has panicked and test_panic_handler has written Failed.
RunnerDone ==
    IF \E i \in DOMAIN tests : tests[i].kind = "panic"
    THEN At("panic") # {} /\ exitCode = <<"failed">>
    ELSE /\ exitCode = <<"success">>
         /\ {events[p][2] : p \in At("[Ok]")} = DOMAIN tests

\* C12: test_runner runs the tests of the slice once each and in slice
\* order; a test's name is printed just before it is called and "[Ok]"
\* after it returned, before the next name. Success is written only after
\* the last test returned. When a test panics, test_panic_handler prints
\* "[failed]" and the error and writes Failed; no test is called after the
\* panic and Success is never written. Every run ends in one of the two.
C12_RunnerReportsEveryTest ==
    /\ [](entry \in RunnerEntries =>
            /\ \A p \in At("call") :
                  /\ events[p][2] = Cardinality({q \in At("call") : q <= p})
                  /\ events[p][2] \in DOMAIN tests
                  /\ events[p - 1] = <<"name", events[p][2]>>
                  /\ events[p][2] > 1 => events[p - 2] = <<"[Ok]", events[p][2] - 1>>
            /\ \A p \in At("[Ok]") :
                  /\ events[p - 1] = <<"call", events[p][2]>>
                  /\ tests[events[p][2]].kind # "panic"
            /\ \A p \in At("exit_success") :
                  /\ At("panic") = {}
                  /\ Cardinality(At("call")) = Len(tests)
                  /\ Cardinality(At("[Ok]")) = Len(tests)
                  /\ events[p - 1] =
                        (IF tests = <<>> THEN <<"Running", 0>> ELSE <<"[Ok]", Len(tests)>>)
            /\ \A p \in At("panic") :
                  /\ events[p - 1][1] = "call"
                  /\ tests[events[p - 1][2]].kind = "panic"
                  /\ IsPrefix(After(p), <<<<"[failed]", 0>>, <<"Error", 0>>, <<"exit_failed", 0>>>>)
            /\ \A p \in At("exit_failed") : At("panic") # {}
            /\ Len(exitCode) <= 1
            /\ Len(exitCode) = Cardinality(At("exit_success") \cup At("exit_failed")))
    /\ <>(entry \in RunnerEntries => RunnerDone)

\* A slice of two tests whose second panicked after the first passed: the
\* handler has written Failed.
C12_Witness ==
    /\ entry \in RunnerEntries /\ Len(tests) = 2
    /\ tests[1].kind = "println" /\ tests[2].kind = "panic"
    /\ <<"[Ok]", 1>> \in {events[p] : p \in DOMAIN events}
    /\ exitCode = <<"failed">>

\* C13: the should_panic binary writes Success exactly when should_fail
\* panics: on a panic the handler prints "[ok]" and writes Success; when
\* should_fail returns, _start prints "[test did not panic]" and writes
\* Failed. The two exclude each other and every run writes exactly one code.
C13_SuccessIffPanic ==
    /\ [](entry = "should_panic" =>
            /\ Len(exitCode) <= 1
            /\ At("call") \subseteq {1}
            /\ (exitCode = <<"success">> =>
                  /\ tests[1].kind = "panic"
                  /\ events = <<<<"call", 1>>, <<"name", 1>>, <<"panic", 0>>,
                                <<"[ok]", 0>>, <<"exit_success", 0>>>>)
            /\ (exitCode = <<"failed">> =>
                  /\ tests[1].kind # "panic"
                  /\ events = <<<<"call", 1>>, <<"name", 1>>,
                                <<"[test did not panic]", 0>>, <<"exit_failed", 0>>>>))
    /\ <>(entry = "should_panic" =>
            exitCode = <<IF tests[1].kind = "panic" THEN "success" ELSE "failed">>)

\* should_fail has panicked and the handler has written Success.
C13_Witness ==
    /\ entry = "should_panic" /\ tests[1].kind = "panic"
    /\ At("panic") # {} /\ exitCode = <<"success">>

\* The last row of the screen.
LastRow == BUFFER_HEIGHT - 1

\* C14: printing never indexes the buffer outside its bounds. column_pos
\* stays within 0..BUFFER_WIDTH, every cell write_byte stores a byte in is
\* in the last row at a column below BUFFER_WIDTH, and a byte written when
\* column_pos = BUFFER_WIDTH first starts a new line and lands at column 0.
C14_WritesStayInBounds ==
    /\ [](/\ ~writer.oob
          /\ writer.column_pos \in 0..BUFFER_WIDTH
          /\ writer.cells \subseteq {LastRow} \X Cols)
    /\ [][\A byte \in ByteInputs \ {10} :
            (/\ writes' = writes + 1
             /\ wcall' = <<"write_byte", byte>>
             /\ writer.column_pos = BUFFER_WIDTH) =>
                /\ writer'.wraps = writer.wraps + 1
                /\ writer'.column_pos = 1
                /\ writer'.chars[LastRow][0] = ScreenChar(byte, writer.color_code)
                /\ writer'.chars[LastRow - 1] = writer.chars[LastRow]
                /\ <<LastRow, 0>> \in writer'.cells]_vars

\* A byte has just been written on a full row: it started a new line and
\* sits at column 0 under the row that was full.
C14_Witness ==
    /\ wcall = <<"write_byte", 65>>
    /\ writer.wraps = 1 /\ writer.column_pos = 1
    /\ writer.chars[LastRow][0].ascii_char = 65
    /\ \A c \in Cols : writer.chars[LastRow - 1][c].ascii_char = 120

\* C15: new_line (reached through write_byte of a line feed) moves every
\* row one up: row r holds what row r + 1 held, the top row is gone, the
\* last row is blanks in the current colour and column_pos is 0. The colour
\* and everything else of the Writer stay as they were.
C15_NewLineShiftsRows ==
    [][(writes' = writes + 1 /\ wcall' = <<"write_byte", 10>>) =>
          /\ \A r \in 0..(BUFFER_HEIGHT - 2) :
                \A c \in Cols : writer'.chars[r][c] = writer.chars[r + 1][c]
          /\ \A c \in Cols :
                writer'.chars[LastRow][c] = ScreenChar(32, writer.color_code)
          /\ writer'.column_pos = 0
          /\ writer'.color_code = writer.color_code
          /\ DOMAIN writer'.chars = Rows
          /\ \A r \in Rows : DOMAIN writer'.chars[r] = Cols
          /\ writer'.oob = writer.oob
          /\ writer'.cells = writer.cells
          /\ writer'.wraps = writer.wraps]_vars

\* A line feed has just been written on a screen of lettered rows with a
\* half-written last row: the second row is now on top, the half-written
\* row is the one above the last, and the last row is blank.
C15_Witness ==
    /\ wcall = <<"write_byte", 10>> /\ writes = 2
    /\ writer.chars[0][0].ascii_char = 66
    /\ writer.chars[LastRow - 1][0].ascii_char = 120
    /\ writer.chars[LastRow - 1][BUFFER_WIDTH - 1].ascii_char = 89
    /\ writer.chars[LastRow][0] = ScreenChar(32, ColorCode(Cyan, Black))
    /\ writer.column_pos = 0

\* C16: breakpoint_handler never waits forever for the WRITER lock. At
\* every int3 (the kernel's _start, test_breakpoint_exception) and on every
\* entry into the handler the interrupted code does not hold the lock, so
\* the handler's println! takes it, gives it back, and the handler returns.
C16_HandlerGetsWriter ==
    /\ [](/\ (cpu = "running" /\ callPc = 0 /\ Op = "int3" => writerLock = "none")
          /\ (origin = "int3" /\ hpc \in {"none", "print"} => writerLock = "none")
          /\ (hpc = "printing" => writerLock = "handler")
          /\ (writerLock = "handler" => cpu = "handler" /\ hpc = "printing")
          /\ (hpc = "iret" => writerLock = "none"))
    /\ ((cpu = "handler" /\ hpc = "print") ~> (hpc = "printing"))
    /\ ((hpc = "printing") ~> (hpc = "iret"))
    /\ ((hpc = "iret") ~> (hpc = "none" /\ cpu = "running" /\ writerLock = "none"))

\* The kernel has printed "Hello World!" under the lock, trapped, and the
\* handler has taken the lock, printed, and given it back.
C16_Witness ==
    /\ entry = "kernel" /\ origin = "int3"
    /\ cpu = "handler" /\ hpc = "iret" /\ writerLock = "none"
    /\ wcall[1] = "write_string" /\ SubSeq(wcall[2], 1, 9) = SubSeq(ExceptionBreakpoint, 1, 9)

====
